---- MODULE Spec2Model ----
(***************************************************************************)
(* Model of storage::mbusprot::StorageCommand (the CommandEnvelope) from   *)
(* storageapi/mbusprot/storagecommand.cpp: its constructor and makeReply(),*)
(* statement by statement, together with the reply objects makeReply()     *)
(* obtains from the wrapped api::StorageCommand and the                    *)
(* mbusprot::StorageReply (ReplyEnvelope) objects it returns.              *)
(***************************************************************************)
EXTENDS Integers, Sequences, FiniteSets, TLC

\* ---- bounds of the model ----
MaxCmds  == 2   \* api::StorageCommand objects the caller has created
MaxEnvs  == 1   \* mbusprot::StorageCommand objects constructed
MaxCalls == 2   \* makeReply() calls in one behaviour
MaxCount == 0   \* each BucketInfo field ranges over 0..MaxCount

\* an empty api::StorageCommand::SP, an empty reply handle
Null == 0

CmdIds == 1..MaxCmds

\* api::BucketInfo(a,b,c): the values a reply-factory may have computed
Infos == (0..MaxCount) \X (0..MaxCount) \X (0..MaxCount)

\* the value of a reply kind that has no BucketInfo member
NoInfo == <<>>

\* exceptions a command's reply-factory may throw
Excs == {"std::bad_alloc", "std::runtime_error"}

\* the two ways a build faults on a call through an empty _cmd:
\* the load of the vtable pointer traps, or the library's operator->
\* assertion aborts
NullDerefFaults == {"SIGSEGV", "SIGABRT"}

VARIABLES
    held,        \* held[c]: the caller still has a handle on command c
    envs,        \* the mbusprot::StorageCommand objects, in construction order
    heap,        \* the api::StorageReply objects, in allocation order
    replyEnvs,   \* the mbusprot::StorageReply objects makeReply() returned
    fault        \* "none", or the signal that ended the process

vars == <<held, envs, heap, replyEnvs, fault>>

\* variant: a default-constructed BucketInfo() is passed to the setter
Sentinel_Default == <<0, 0, 0>>

\* BucketInfo(1,1,1), the argument of setBucketInfo at line 15
Sentinel == <<1, 1, 1>>

\* no reply came out of the envelope's latest call of the factory
NoOut == [kind |-> "none", info |-> NoInfo, cmd |-> Null]

NoResult == [st |-> "none", exc |-> "-", env |-> 0]

\* the replies _cmd->makeReply() can return for command c, each naming the
\* command it answers: a BucketInfoReply with any summary, or a reply
\* without the capability
FactoryReturns(c) ==
    [kind : {"bucket"}, info : Infos, cmd : {c}]
      \cup [kind : {"plain"}, info : {NoInfo}, cmd : {c}]

RECURSIVE SumCalls(_)
SumCalls(n) == IF n = 0 THEN 0 ELSE envs[n].calls + SumCalls(n - 1)

\* makeReply() calls entered so far, over all envelopes
TotalCalls == SumCalls(Len(envs))

Init ==
    /\ held = [c \in CmdIds |-> TRUE]
    /\ envs = <<>>
    /\ heap = <<>>
    /\ replyEnvs = <<>>
    /\ fault = "none"

\* StorageCommand::StorageCommand(api::StorageCommand::SP cmd): the by-value
\* parameter is initialised from the caller's argument by copy (the caller
\* keeps its handle) or by move (the caller's handle is emptied); the
\* parameter itself is moved into _cmd. No check of cmd against null.
Construct(c, moved) ==
    /\ fault = "none"
    /\ Len(envs) < MaxEnvs
    /\ c # Null => held[c]
    /\ c = Null => ~moved
    /\ envs' = Append(envs, [_cmd |-> c, ctor |-> c, pc |-> "idle",
                             reply |-> Null, fac |-> Null, facOut |-> NoOut,
                             facExc |-> "-",
                             result |-> NoResult,
                             calls |-> 0, facCalls |-> 0, made |-> 0])
    /\ held' = IF moved THEN [held EXCEPT ![c] = FALSE] ELSE held
    /\ UNCHANGED <<heap, replyEnvs, fault>>

\* the value makeReply() leaves in the caller's hands
Returned(i) == [st |-> "ok", exc |-> "-", env |-> i]
Thrown(x) == [st |-> "throw", exc |-> x, env |-> 0]

\* variant: a handler around the factory call rethrows its own exception type
CallFactory_Translating(e, c) ==
    \/ \E r \in FactoryReturns(c) :
         /\ heap' = Append(heap, r @@ [live |-> TRUE])
         /\ envs' = [envs EXCEPT ![e].calls = @ + 1,
                                 ![e].facCalls = @ + 1,
                                 ![e].reply = Len(heap) + 1,
                                 ![e].fac = Len(heap) + 1,
                                 ![e].facOut = r,
                                 ![e].facExc = "-",
                                 ![e].result = NoResult,
                                 ![e].pc = "cast"]
         /\ UNCHANGED <<held, replyEnvs, fault>>
    \/ \E x \in Excs :
         /\ envs' = [envs EXCEPT ![e].calls = @ + 1,
                                 ![e].facCalls = @ + 1,
                                 ![e].fac = Null,
                                 ![e].facOut = NoOut,
                                 ![e].facExc = x,
                                 ![e].result = Thrown("std::runtime_error")]
         /\ UNCHANGED <<held, heap, replyEnvs, fault>>

\* variant: the command is moved out of _cmd before its factory is called
CallFactory_MovingCmd(e, c) ==
    \/ \E r \in FactoryReturns(c) :
         /\ heap' = Append(heap, r @@ [live |-> TRUE])
         /\ envs' = [envs EXCEPT ![e]._cmd = Null,
                                 ![e].calls = @ + 1,
                                 ![e].facCalls = @ + 1,
                                 ![e].reply = Len(heap) + 1,
                                 ![e].fac = Len(heap) + 1,
                                 ![e].facOut = r,
                                 ![e].facExc = "-",
                                 ![e].result = NoResult,
                                 ![e].pc = "cast"]
         /\ UNCHANGED <<held, replyEnvs, fault>>
    \/ \E x \in Excs :
         /\ envs' = [envs EXCEPT ![e]._cmd = Null,
                                 ![e].calls = @ + 1,
                                 ![e].facCalls = @ + 1,
                                 ![e].fac = Null,
                                 ![e].facOut = NoOut,
                                 ![e].facExc = x,
                                 ![e].result = Thrown(x)]
         /\ UNCHANGED <<held, heap, replyEnvs, fault>>

\* line 14, _cmd not empty: one call of the reply-factory of command c by
\* envelope e. The factory returns a new reply, or throws; makeReply() has
\* no handler, so what the factory throws leaves it as it is
CallFactory(e, c) ==
    \/ \E r \in FactoryReturns(c) :
         /\ heap' = Append(heap, r @@ [live |-> TRUE])
         /\ envs' = [envs EXCEPT ![e].calls = @ + 1,
                                 ![e].facCalls = @ + 1,
                                 ![e].reply = Len(heap) + 1,
                                 ![e].fac = Len(heap) + 1,
                                 ![e].facOut = r,
                                 ![e].facExc = "-",
                                 ![e].result = NoResult,
                                 ![e].pc = "cast"]
         /\ UNCHANGED <<held, replyEnvs, fault>>
    \/ \E x \in Excs :
         /\ envs' = [envs EXCEPT ![e].calls = @ + 1,
                                 ![e].facCalls = @ + 1,
                                 ![e].fac = Null,
                                 ![e].facOut = NoOut,
                                 ![e].facExc = x,
                                 ![e].result = Thrown(x)]
         /\ UNCHANGED <<held, heap, replyEnvs, fault>>

\* line 14, _cmd empty: undefined behaviour, a fault of the process
CallThroughNull(e) ==
    /\ \E f \in NullDerefFaults : fault' = f
    /\ envs' = [envs EXCEPT ![e].calls = @ + 1]
    /\ UNCHANGED <<held, heap, replyEnvs>>

\* variant: a second call on an envelope that has produced a reply is refused
MakeReply_Call_Once(e) ==
    /\ fault = "none"
    /\ envs[e].pc = "idle"
    /\ envs[e].made = 0
    /\ TotalCalls < MaxCalls
    /\ IF envs[e]._cmd = Null
       THEN CallThroughNull(e)
       ELSE CallFactory(e, envs[e]._cmd)

\* line 14: auto reply = _cmd->makeReply();
MakeReply_Call(e) ==
    /\ fault = "none"
    /\ envs[e].pc = "idle"
    /\ TotalCalls < MaxCalls
    /\ IF envs[e]._cmd = Null
       THEN CallThroughNull(e)
       ELSE CallFactory(e, envs[e]._cmd)

\* variant: static_cast in place of dynamic_cast, every reply passes
IsBucketInfoReply_Static(o) == TRUE

\* dynamic_cast<api::BucketInfoReply &>(*reply) succeeds
IsBucketInfoReply(o) == o.kind = "bucket"

\* BucketInfoReply::setBucketInfo(info)
SetBucketInfo(o, info) == [o EXCEPT !.info = info]

\* variant: a pointer cast whose null result is tested, so that a reply
\* without the capability goes on to line 16 untouched
MakeReply_Narrow_Skipping(e) ==
    /\ fault = "none"
    /\ envs[e].pc = "cast"
    /\ envs' = [envs EXCEPT ![e].pc = IF IsBucketInfoReply(heap[envs[e].reply])
                                      THEN "set" ELSE "wrap"]
    /\ UNCHANGED <<held, heap, replyEnvs, fault>>

\* line 15, the cast: dynamic_cast<api::BucketInfoReply &>(*reply). A failed
\* reference cast throws std::bad_cast, which leaves makeReply(); unwinding
\* destroys the local reply
MakeReply_Narrow(e) ==
    /\ fault = "none"
    /\ envs[e].pc = "cast"
    /\ LET r == envs[e].reply IN
       IF IsBucketInfoReply(heap[r])
       THEN /\ envs' = [envs EXCEPT ![e].pc = "set"]
            /\ heap' = heap
       ELSE /\ heap' = [heap EXCEPT ![r].live = FALSE]
            /\ envs' = [envs EXCEPT ![e].pc = "idle",
                                    ![e].reply = Null,
                                    ![e].result = Thrown("std::bad_cast")]
    /\ UNCHANGED <<held, replyEnvs, fault>>

\* line 15, the call on the cast's result: .setBucketInfo(api::BucketInfo(1,1,1))
MakeReply_SetBucketInfo(e) ==
    /\ fault = "none"
    /\ envs[e].pc = "set"
    /\ heap' = [heap EXCEPT ![envs[e].reply] = SetBucketInfo(@, Sentinel)]
    /\ envs' = [envs EXCEPT ![e].pc = "wrap"]
    /\ UNCHANGED <<held, replyEnvs, fault>>

\* variant: the envelope hands out again the reply of its first call
MakeReply_Return_Cached(e) ==
    /\ fault = "none"
    /\ envs[e].pc = "wrap"
    /\ LET mine == {i \in DOMAIN replyEnvs : replyEnvs[i].by = e}
           r == IF mine = {} THEN envs[e].reply
                ELSE replyEnvs[CHOOSE i \in mine : \A j \in mine : i <= j]._reply
       IN replyEnvs' = Append(replyEnvs, [_reply |-> r, by |-> e])
    /\ envs' = [envs EXCEPT ![e].pc = "idle",
                            ![e].reply = Null,
                            ![e].made = @ + 1,
                            ![e].result = Returned(Len(replyEnvs) + 1)]
    /\ UNCHANGED <<held, heap, fault>>

\* variant: the reply is handed to the StorageReply without std::move, the
\* local keeping its reference
MakeReply_Return_Sharing(e) ==
    /\ fault = "none"
    /\ envs[e].pc = "wrap"
    /\ replyEnvs' = Append(replyEnvs, [_reply |-> envs[e].reply, by |-> e])
    /\ envs' = [envs EXCEPT ![e].pc = "idle",
                            ![e].made = @ + 1,
                            ![e].result = Returned(Len(replyEnvs) + 1)]
    /\ UNCHANGED <<held, heap, fault>>

\* line 16: return std::make_unique<StorageReply>(std::move(reply));
MakeReply_Return(e) ==
    /\ fault = "none"
    /\ envs[e].pc = "wrap"
    /\ replyEnvs' = Append(replyEnvs, [_reply |-> envs[e].reply, by |-> e])
    /\ envs' = [envs EXCEPT ![e].pc = "idle",
                            ![e].reply = Null,
                            ![e].made = @ + 1,
                            ![e].result = Returned(Len(replyEnvs) + 1)]
    /\ UNCHANGED <<held, heap, fault>>

Next ==
    \/ \E c \in CmdIds \cup {Null}, moved \in BOOLEAN : Construct(c, moved)
    \/ \E e \in DOMAIN envs : MakeReply_Call(e)
    \/ \E e \in DOMAIN envs : MakeReply_Narrow(e)
    \/ \E e \in DOMAIN envs : MakeReply_SetBucketInfo(e)
    \/ \E e \in DOMAIN envs : MakeReply_Return(e)

Spec == Init /\ [][Next]_vars

\* the two states of a CommandEnvelope: no reply produced yet, or one produced
State(e) == IF envs[e].made = 0 THEN "Holding" ELSE "Spent"

\* every field of a reply but its bucket summary
Rest(o) == <<o.kind, o.cmd>>

\* the replies some ReplyEnvelope owns
Wrapped == {replyEnvs[i]._reply : i \in DOMAIN replyEnvs}

\* a makeReply() call of envelope e has run to its end
Finished(e) == envs[e].pc = "idle" /\ envs[e].calls > 0 /\ fault = "none"

----------------------------------------------------------------------------
\* C1: when the reply-factory returns a bucket-info-capable reply with any
\* summary (a,b,c), makeReply() returns a ReplyEnvelope whose reply has the
\* summary (1,1,1) and every other field as the factory produced it.
C1_SentinelOverwrite ==
    \A e \in DOMAIN envs :
        (Finished(e) /\ envs[e].fac # Null /\ envs[e].facOut.kind = "bucket")
        => /\ envs[e].result.st = "ok"
           /\ LET r == replyEnvs[envs[e].result.env]._reply IN
              /\ r = envs[e].fac
              /\ heap[r].live
              /\ heap[r].info = <<1, 1, 1>>
              /\ Rest(heap[r]) = Rest(envs[e].facOut)

C1_Witness ==
    \E e \in DOMAIN envs :
        /\ Finished(e) /\ envs[e].fac # Null
        /\ envs[e].facOut.kind = "bucket"
        /\ envs[e].facOut.info = <<0, 0, 0>>
        /\ envs[e].result.st = "ok"
        /\ heap[replyEnvs[envs[e].result.env]._reply].info = <<1, 1, 1>>

C3_NoNullCommand ==
    \A e \in DOMAIN envs : envs[e]._cmd # Null

\* C4 (as stated): when the reply-factory returns a reply of a non-bucket-info
\* kind, makeReply() returns a ReplyEnvelope whose reply is identical, field
\* for field, to what the factory returned.
C4_PassThroughOfPlainReply ==
    \A e \in DOMAIN envs :
        (Finished(e) /\ envs[e].fac # Null /\ envs[e].facOut.kind = "plain")
        => /\ envs[e].result.st = "ok"
           /\ replyEnvs[envs[e].result.env]._reply = envs[e].fac
           /\ heap[envs[e].fac] = envs[e].facOut @@ [live |-> TRUE]

\* C4 (amended): a reply of a non-bucket-info kind is never wrapped: it stays,
\* field for field, what the factory returned until the failed cast destroys
\* it; and every reply a ReplyEnvelope holds is bucket-info-capable and
\* identical to what the factory returned in every field but the summary.
C4_IdenticalButSummary ==
    /\ \A r \in DOMAIN heap :
          heap[r].kind = "plain"
          => /\ r \notin Wrapped
             /\ (\A e \in DOMAIN envs : envs[e].reply # r) => ~heap[r].live
    /\ \A e \in DOMAIN envs :
          envs[e].fac # Null
          => /\ Rest(heap[envs[e].fac]) = Rest(envs[e].facOut)
             /\ envs[e].facOut.kind = "plain"
                => [heap[envs[e].fac] EXCEPT !.live = TRUE] = envs[e].facOut @@ [live |-> TRUE]
             /\ envs[e].fac \in Wrapped => envs[e].facOut.kind = "bucket"

C4_Witness ==
    \E e \in DOMAIN envs :
        /\ envs[e].made > 0
        /\ \E i \in DOMAIN replyEnvs : replyEnvs[i].by = e
        /\ envs[e].fac # Null
        /\ envs[e].facOut.kind = "plain"
        /\ ~heap[envs[e].fac].live

\* C5: two successful makeReply() calls on one CommandEnvelope return two
\* ReplyEnvelopes owning two distinct reply objects; no reply object is owned
\* by more than one ReplyEnvelope, and a later call does not change the reply
\* an envelope returned earlier holds.
C5_NoAliasing ==
    /\ [](\A i, j \in DOMAIN replyEnvs : i # j => replyEnvs[i]._reply # replyEnvs[j]._reply)
    /\ [][\A i \in DOMAIN replyEnvs :
              /\ i \in DOMAIN replyEnvs'
              /\ replyEnvs'[i] = replyEnvs[i]
              /\ heap'[replyEnvs[i]._reply] = heap[replyEnvs[i]._reply]]_vars

C5_Witness ==
    \E i, j \in DOMAIN replyEnvs :
        /\ i # j
        /\ replyEnvs[i].by = replyEnvs[j].by
        /\ replyEnvs[i]._reply # replyEnvs[j]._reply
        /\ heap[replyEnvs[i]._reply].live /\ heap[replyEnvs[j]._reply].live

\* C6: after construction the CommandEnvelope is the only holder of its
\* command: neither the caller nor another envelope has a handle on it.
C6_ExclusiveOwner ==
    \A e \in DOMAIN envs :
        envs[e]._cmd # Null
        => /\ ~held[envs[e]._cmd]
           /\ \A d \in DOMAIN envs : d # e => envs[d]._cmd # envs[e]._cmd

\* C7: when the reply-factory throws, makeReply() fails with that same
\* exception: it is not caught or replaced, no bucket summary is written, no
\* ReplyEnvelope is made and the CommandEnvelope keeps its command.
C7_FactoryFailurePropagates ==
    /\ [](\A e \in DOMAIN envs :
             envs[e].facExc # "-"
             => /\ envs[e].result = Thrown(envs[e].facExc)
                /\ envs[e].pc = "idle"
                /\ envs[e].reply = Null
                /\ envs[e]._cmd = envs[e].ctor /\ envs[e]._cmd # Null)
    /\ [][\A e \in DOMAIN envs :
              (envs'[e].calls = envs[e].calls + 1 /\ envs'[e].facExc # "-")
              => /\ heap' = heap
                 /\ replyEnvs' = replyEnvs
                 /\ envs'[e]._cmd = envs[e]._cmd]_vars

C7_Witness ==
    \E e \in DOMAIN envs :
        /\ envs[e].facExc = "std::bad_alloc"
        /\ envs[e].result = Thrown("std::bad_alloc")
        /\ envs[e].made > 0

\* C8: makeReply() does not enforce single-call semantics: it can be called
\* in the Holding and in the Spent state, and each call invokes the command's
\* reply-factory exactly once and yields the reply of that invocation.
C8_NoSingleCallEnforcement ==
    \A e \in DOMAIN envs :
        envs[e]._cmd # Null
        => /\ (fault = "none" /\ envs[e].pc = "idle" /\ TotalCalls < MaxCalls
                  /\ State(e) \in {"Holding", "Spent"})
              => ENABLED MakeReply_Call(e)
           /\ envs[e].facCalls = envs[e].calls
           /\ envs[e].result.st = "ok"
              => replyEnvs[envs[e].result.env]._reply = envs[e].fac

C8_Witness ==
    \E e \in DOMAIN envs :
        /\ State(e) = "Spent"
        /\ envs[e].pc = "cast"
        /\ envs[e].calls = 2 /\ envs[e].facCalls = 2

\* C9: makeReply() leaves the owned command alone: after any number of
\* calls, successful or failed, the envelope holds the non-null command it
\* was constructed with, and the bucket-summary overwrite touches only the
\* reply the call produced.
C9_CommandUntouched ==
    /\ [](\A e \in DOMAIN envs : envs[e].ctor # Null => envs[e]._cmd = envs[e].ctor)
    /\ [][\A e \in DOMAIN envs :
              (envs[e].pc \in {"cast", "set"} /\ envs'[e].pc # envs[e].pc)
              => /\ held' = held
                 /\ envs'[e]._cmd = envs[e]._cmd
                 /\ \A r \in DOMAIN heap : r # envs[e].reply => heap'[r] = heap[r]]_vars

C9_Witness ==
    \E e \in DOMAIN envs :
        /\ envs[e].calls = 2 /\ envs[e].made = 1
        /\ envs[e].result.st = "throw"
        /\ envs[e]._cmd = envs[e].ctor /\ envs[e]._cmd # Null

\* C10: within one makeReply() call the steps run in the order factory call,
\* narrowing, overwrite, wrapping, so the overwrite to (1,1,1) precedes the
\* construction of the ReplyEnvelope: no ReplyEnvelope ever wraps a
\* bucket-info-capable reply carrying another summary, a ReplyEnvelope is
\* made only by the statement after the overwrite, and once wrapped the reply
\* is referenced by the ReplyEnvelope alone, not by the CommandEnvelope.
C10_OverwriteBeforeWrap ==
    /\ [](/\ \A r \in Wrapped :
               heap[r].live /\ (heap[r].kind = "bucket" => heap[r].info = <<1, 1, 1>>)
          /\ \A e \in DOMAIN envs :
               /\ envs[e].reply \notin Wrapped
               /\ envs[e].pc \in {"cast", "set"}
                  => heap[envs[e].reply] = envs[e].facOut @@ [live |-> TRUE]
               /\ envs[e].pc = "set" => heap[envs[e].reply].kind = "bucket"
               /\ envs[e].pc = "wrap" => heap[envs[e].reply].info = <<1, 1, 1>>)
    /\ [][replyEnvs' # replyEnvs
            => \E e \in DOMAIN envs :
                 /\ envs[e].pc = "wrap" /\ envs'[e].pc = "idle"
                 /\ replyEnvs' = Append(replyEnvs, [_reply |-> envs[e].reply, by |-> e])
                 /\ envs'[e].reply = Null]_vars

C10_Witness ==
    \E e \in DOMAIN envs, d \in DOMAIN envs :
        /\ envs[e].made > 0
        /\ envs[d].pc = "set"
        /\ envs[d].facOut.kind = "bucket"
        /\ envs[d].facOut.info # <<1, 1, 1>>

====
